---- MODULE Spec2Model ----
(***************************************************************************)
(* A model of rust-shell (src/src/main.rs): the raw-mode line editor, the  *)
(* tokenizer, the redirection parser, the builtin dispatcher and the       *)
(* pipeline executor.                                                      *)
(*                                                                         *)
(* Text is a sequence of one-character strings; the control characters     *)
(* are the named values below.  The terminal, the file system, the search  *)
(* path and the external programs cat and printf are the environment.      *)
(***************************************************************************)
EXTENDS Integers, Sequences, FiniteSets, TLC

VARIABLES
    pc,            \* where main is: "prompt", "read", "exec", "stage", "wait", "returned", "exited", "panicked"
    raw,           \* the terminal's mode flag: TRUE raw, FALSE cooked
    input_buffer,  \* main's input_buffer
    tab_count,     \* main's tab_count
    row,           \* the cells of the terminal's current row
    col,           \* the terminal's cursor column (0-based)
    term_out,      \* what the execution of the submitted line wrote to the terminal
    files,         \* the file system: path -> None, or Some(content)
    cwd,           \* the process's current directory
    procs,         \* the external processes spawned for the submitted line
    line,          \* the argument of execute_pipeline
    segments,      \* execute_pipeline's segments
    seg_i,         \* execute_pipeline's loop index (1-based)
    prev_stdout,   \* execute_pipeline's prev_stdout: None or the index in procs of the pipe's writer
    children,      \* execute_pipeline's children: indices in procs
    cont,          \* the value execute_pipeline returned
    cause,         \* why the process ended: "" while it runs
    submitted,     \* how many lines were submitted with Enter
    tab_run,       \* history: Tab presses since the most recent key that was not Tab
    ac_count,      \* history: the count handed to handle_autocomplete by the last key (0: not called)
    key_out,       \* history: what the handler of the last key wrote to the terminal
    fn_pc,         \* a function called on its own: "idle" in a session of the shell
    fn_input,      \* the argument of the call: a line for tokenize, tokens for parse
    fn_result,     \* what the call returned
    fn_again       \* what tokenize returned for the re-joined tokens

vars == <<pc, raw, input_buffer, tab_count, row, col, term_out, files, cwd, procs,
          line, segments, seg_i, prev_stdout, children, cont, cause, submitted,
          tab_run, ac_count, key_out, fn_pc, fn_input, fn_result, fn_again>>

\* the variables of a session of the shell, and those of a function called on its own
shell_vars == <<pc, raw, input_buffer, tab_count, row, col, term_out, files, cwd, procs,
                line, segments, seg_i, prev_stdout, children, cont, cause, submitted,
                tab_run, ac_count, key_out>>
fn_vars == <<fn_pc, fn_input, fn_result, fn_again>>

-----------------------------------------------------------------------------
(* Bounds of the model. *)

\* free typing: any key of FreeKeys while the buffer is shorter than this
MaxFree == 2
\* lines submitted with Enter in one session
MaxLines == 2
\* consecutive Tab presses
MaxTabs == 3
\* the length of the lines handed to tokenize on its own
MaxLen == 4
\* the number of tokens handed to parse on its own
MaxTokens == 4

-----------------------------------------------------------------------------
(* Characters. *)

NL  == "\n"
CR  == "\r"
TAB == "\t"
DEL == "DEL"      \* 0x7f
ETX == "ETX"      \* 0x03, Ctrl-C
BS  == "BS"       \* 0x08, Ctrl-H
BEL == "BEL"      \* 0x07
SP  == " "
SQ  == "'"
DQ  == "\""
BSL == "\\"
DOLLAR == "$"
PIPE == "|"
PCT == "%"
GT  == ">"

\* Option<T>: None is the empty sequence, Some(x) the one-element sequence
None == <<>>
Some(x) == <<x>>

\* Control characters the terminal does not show as a glyph.
ControlChars == {NL, CR, TAB, DEL, ETX, BS, BEL}

-----------------------------------------------------------------------------
(* Sequence helpers (Rust's str and Vec operations). *)

Last(s) == s[Len(s)]
Front(s) == SubSeq(s, 1, Len(s) - 1)
Drop(s, n) == SubSeq(s, n + 1, Len(s))
Take(s, n) == SubSeq(s, 1, n)
Range(s) == {s[i] : i \in 1..Len(s)}
Contains(s, x) == \E i \in 1..Len(s) : s[i] = x

\* str::starts_with
starts_with(s, p) == Len(p) <= Len(s) /\ SubSeq(s, 1, Len(p)) = p

\* [String]::join
RECURSIVE join(_, _)
join(ss, sep) ==
    IF ss = <<>> THEN <<>>
    ELSE IF Len(ss) = 1 THEN ss[1]
    ELSE ss[1] \o sep \o join(Tail(ss), sep)

\* str::trim for the whitespace of the model
Whitespace == {SP, NL, CR, TAB}
trim(s) ==
    LET kept == {i \in 1..Len(s) : s[i] \notin Whitespace} IN
    IF kept = {} THEN <<>>
    ELSE SubSeq(s, CHOOSE i \in kept : \A j \in kept : i <= j,
                   CHOOSE i \in kept : \A j \in kept : j <= i)

\* str::split(sep): the pieces between the occurrences of sep, always at least one
split(s, sep) ==
    LET cuts == {0, Len(s) + 1} \cup {i \in 1..Len(s) : s[i] = sep}
        cut(k) == CHOOSE i \in cuts : Cardinality({j \in cuts : j < i}) = k - 1
    IN  [k \in 1..(Cardinality(cuts) - 1) |-> SubSeq(s, cut(k) + 1, cut(k + 1) - 1)]

\* lexicographic order on strings, by character code
CharOrder == <<ETX, BEL, BS, TAB, NL, CR, SP, DQ, DOLLAR, PCT, SQ, "/", "0", "1", "2", ":", GT,
               BSL, "a", "b", "c", "d", "e", "f", "h", "i", "l", "n", "o", "p", "r", "s",
               "t", "u", "v", "w", "x", "y", PIPE, DEL>>
CharRank(c) == IF \E i \in 1..Len(CharOrder) : CharOrder[i] = c
               THEN CHOOSE i \in 1..Len(CharOrder) : CharOrder[i] = c
               ELSE Len(CharOrder) + 1

RECURSIVE StrLess(_, _)
StrLess(a, b) ==
    IF a = <<>> THEN b # <<>>
    ELSE IF b = <<>> THEN FALSE
    ELSE IF Head(a) = Head(b) THEN StrLess(Tail(a), Tail(b))
    ELSE CharRank(Head(a)) < CharRank(Head(b))

-----------------------------------------------------------------------------
(* The environment: names, the search path, directories. *)

W_exit   == <<"e", "x", "i", "t">>
W_echo   == <<"e", "c", "h", "o">>
W_type   == <<"t", "y", "p", "e">>
W_pwd    == <<"p", "w", "d">>
W_cd     == <<"c", "d">>
W_cat    == <<"c", "a", "t">>
W_printf == <<"p", "r", "i", "n", "t", "f">>
W_printenv == <<"p", "r", "i", "n", "t", "e", "n", "v">>

SHELL_BUILTINS == <<W_exit, W_echo, W_type, W_pwd, W_cd>>

\* the executables of the PATH directories, in directory order (echo is also a
\* program of the search path)
PathExecs == <<W_cat, W_echo, W_printf, W_printenv>>
PathDir == <<"/", "b">>

\* the directories that exist; the session starts in StartDir, HOME is HomeDir
StartDir == <<"/", "w">>
HomeDir == <<"/", "h">>
Dirs == {StartDir, HomeDir}

is_builtin(name) == Contains(SHELL_BUILTINS, name)

find_in_path(command) ==
    IF Contains(PathExecs, command) THEN Some(PathDir \o <<"/">> \o command) ELSE None

-----------------------------------------------------------------------------
(* tokenize *)

\* the iteration as it would be if a backslash inside double quotes were never kept
tokenize_step_dq_drops_backslash(st, input, i) ==
    LET c == input[i]
        has_next == i + 1 <= Len(input)
    IN  IF st.skip THEN [st EXCEPT !.skip = FALSE]
        ELSE IF c = SQ /\ ~st.dq THEN [st EXCEPT !.sq = ~st.sq]
        ELSE IF c = DQ /\ ~st.sq THEN [st EXCEPT !.dq = ~st.dq]
        ELSE IF c = BSL /\ ~st.sq
        THEN IF ~has_next THEN st
             ELSE [st EXCEPT !.current = Append(@, input[i + 1]), !.skip = TRUE]
        ELSE IF c = SP /\ ~st.sq /\ ~st.dq
        THEN IF st.current # <<>>
             THEN [st EXCEPT !.tokens = Append(@, st.current), !.current = <<>>]
             ELSE st
        ELSE [st EXCEPT !.current = Append(@, c)]

\* one iteration of the `while let Some(c) = chars.next()` loop on input[i]; skip says
\* that the previous iteration consumed input[i] with a second chars.next()
tokenize_step(st, input, i) ==
    LET c == input[i]
        has_next == i + 1 <= Len(input)
    IN  IF st.skip THEN [st EXCEPT !.skip = FALSE]
        ELSE IF c = SQ /\ ~st.dq THEN [st EXCEPT !.sq = ~st.sq]
        ELSE IF c = DQ /\ ~st.sq THEN [st EXCEPT !.dq = ~st.dq]
        ELSE IF c = BSL /\ ~st.sq
        THEN IF ~has_next THEN st
             ELSE IF st.dq
                  THEN IF input[i + 1] \in {BSL, DQ, DOLLAR, NL}
                       THEN [st EXCEPT !.current = Append(@, input[i + 1]), !.skip = TRUE]
                       ELSE [st EXCEPT !.current = Append(@, BSL)]
                  ELSE [st EXCEPT !.current = Append(@, input[i + 1]), !.skip = TRUE]
        ELSE IF c = SP /\ ~st.sq /\ ~st.dq
        THEN IF st.current # <<>>
             THEN [st EXCEPT !.tokens = Append(@, st.current), !.current = <<>>]
             ELSE st
        ELSE [st EXCEPT !.current = Append(@, c)]

\* the loop over input[lo..hi] (the range is halved to keep the evaluation shallow)
RECURSIVE tokenize_range(_, _, _, _)
tokenize_range(st, input, lo, hi) ==
    IF lo > hi THEN st
    ELSE IF lo = hi THEN tokenize_step(st, input, lo)
    ELSE CHOOSE r \in {tokenize_range(m, input, ((lo + hi) \div 2) + 1, hi) :
                        m \in {tokenize_range(st, input, lo, (lo + hi) \div 2)}} : TRUE

\* tokenize as it would be without the push of the last token after the loop
tokenize_without_last_push(input) ==
    LET start == [tokens |-> <<>>, current |-> <<>>, sq |-> FALSE, dq |-> FALSE,
                  skip |-> FALSE]
    IN  tokenize_range(start, input, 1, Len(input)).tokens

tokenize(input) ==
    LET start == [tokens |-> <<>>, current |-> <<>>, sq |-> FALSE, dq |-> FALSE,
                  skip |-> FALSE]
        end == tokenize_range(start, input, 1, Len(input))
    IN  IF end.current # <<>> THEN Append(end.tokens, end.current) ELSE end.tokens

-----------------------------------------------------------------------------
(* CommandContext::parse *)

OpOut       == <<GT>>
OpOut1      == <<"1", GT>>
OpAppend    == <<GT, GT>>
OpAppend1   == <<"1", GT, GT>>
OpErr       == <<"2", GT>>
OpErrAppend == <<"2", GT, GT>>

\* tokens.get(i + 1).cloned()
token_after(tokens, i) == IF i + 1 <= Len(tokens) THEN Some(tokens[i + 1]) ELSE None

\* the scan as it would be if the first operator of a stream won
RECURSIVE parse_from_first_wins(_, _, _)
parse_from_first_wins(tokens, i, acc) ==
    IF i > Len(tokens) THEN acc
    ELSE LET t == tokens[i] IN
         IF t \in {OpOut, OpOut1, OpAppend, OpAppend1}
         THEN parse_from_first_wins(tokens, i + 2,
                  IF acc.stdout_path # None THEN acc
                  ELSE [acc EXCEPT !.stdout_path = token_after(tokens, i),
                                   !.append_stdout = t \in {OpAppend, OpAppend1}])
         ELSE IF t \in {OpErr, OpErrAppend}
         THEN parse_from_first_wins(tokens, i + 2,
                  IF acc.stderr_path # None THEN acc
                  ELSE [acc EXCEPT !.stderr_path = token_after(tokens, i),
                                   !.append_stderr = t = OpErrAppend])
         ELSE parse_from_first_wins(tokens, i + 1, [acc EXCEPT !.argv = Append(@, t)])

RECURSIVE parse_from(_, _, _)
parse_from(tokens, i, acc) ==
    IF i > Len(tokens) THEN acc
    ELSE LET t == tokens[i] IN
         IF t \in {OpOut, OpOut1}
         THEN parse_from(tokens, i + 2,
                  [acc EXCEPT !.stdout_path = token_after(tokens, i), !.append_stdout = FALSE])
         ELSE IF t \in {OpAppend, OpAppend1}
         THEN parse_from(tokens, i + 2,
                  [acc EXCEPT !.stdout_path = token_after(tokens, i), !.append_stdout = TRUE])
         ELSE IF t = OpErr
         THEN parse_from(tokens, i + 2,
                  [acc EXCEPT !.stderr_path = token_after(tokens, i), !.append_stderr = FALSE])
         ELSE IF t = OpErrAppend
         THEN parse_from(tokens, i + 2,
                  [acc EXCEPT !.stderr_path = token_after(tokens, i), !.append_stderr = TRUE])
         ELSE parse_from(tokens, i + 1, [acc EXCEPT !.argv = Append(@, t)])

\* the scan of parse: argv and the path and mode bound to each stream
parse_scan(tokens) ==
    parse_from(tokens, 1, [argv |-> <<>>, stdout_path |-> None, append_stdout |-> FALSE,
                           stderr_path |-> None, append_stderr |-> FALSE])

-----------------------------------------------------------------------------
(* The terminal: one row of cells and a cursor.  In cooked mode the driver  *)
(* turns a line feed into carriage return + line feed; in raw mode it does *)
(* not, and a line feed keeps the cursor's column.                         *)

PROMPT == <<DOLLAR, SP>>

Blanks(n) == [i \in 1..n |-> SP]

\* a blank cell shows nothing: a row is kept without its trailing blank cells
row_cells(cells) ==
    LET inked == {i \in 1..Len(cells) : cells[i] # SP} IN
    IF inked = {} THEN <<>>
    ELSE SubSeq(cells, 1, CHOOSE i \in inked : \A j \in inked : j <= i)

\* one character arriving at the terminal
term_put(t, c, rawmode) ==
    IF c = NL THEN [row |-> <<>>, col |-> IF rawmode THEN t.col ELSE 0]
    ELSE IF c = CR THEN [t EXCEPT !.col = 0]
    ELSE IF c = BS THEN [t EXCEPT !.col = IF t.col > 0 THEN t.col - 1 ELSE 0]
    ELSE IF c \in ControlChars THEN t
    ELSE IF t.col < Len(t.row)
         THEN [row |-> row_cells([t.row EXCEPT ![t.col + 1] = c]), col |-> t.col + 1]
         ELSE [row |-> row_cells(t.row \o Blanks(t.col - Len(t.row)) \o <<c>>),
               col |-> t.col + 1]

\* what the row shows up to the cursor
shown(t) == IF t.col <= Len(t.row) THEN Take(t.row, t.col)
            ELSE t.row \o Blanks(t.col - Len(t.row))

\* the characters text[lo..hi] arriving at the terminal, in order (the range is
\* halved to keep the evaluation shallow)
RECURSIVE term_write_range(_, _, _, _, _)
term_write_range(t, text, lo, hi, rawmode) ==
    IF lo > hi THEN t
    ELSE IF lo = hi THEN term_put(t, text[lo], rawmode)
    ELSE CHOOSE r \in {term_write_range(m, text, ((lo + hi) \div 2) + 1, hi, rawmode) :
                        m \in {term_write_range(t, text, lo, (lo + hi) \div 2, rawmode)}} : TRUE

term_write(t, text, rawmode) ==
    CHOOSE r \in {term_write_range(x[1], x[2], 1, Len(x[2]), rawmode) : x \in {<<t, text>>}} : TRUE

Term == [row |-> row, col |-> col]

-----------------------------------------------------------------------------
(* set_raw_mode *)

set_raw_mode(enable) == raw' = enable

-----------------------------------------------------------------------------
(* handle_autocomplete and handle_multiple_matches: each gives the new     *)
(* buffer and the text printed.                                            *)

\* the builtins that start with the buffer, in the order of SHELL_BUILTINS
RECURSIVE builtin_matches(_, _)
builtin_matches(names, buffer) ==
    IF names = <<>> THEN <<>>
    ELSE (IF starts_with(Head(names), buffer) THEN <<Head(names)>> ELSE <<>>)
         \o builtin_matches(Tail(names), buffer)

\* the PATH scan as it would be without the `!matches.contains(&name)` test
RECURSIVE path_matches_with_duplicates(_, _, _)
path_matches_with_duplicates(names, buffer, matches) ==
    IF names = <<>> THEN matches
    ELSE path_matches_with_duplicates(Tail(names), buffer,
             IF starts_with(Head(names), buffer)
             THEN Append(matches, Head(names)) ELSE matches)

\* the PATH entries that start with the buffer and are not yet in matches
RECURSIVE path_matches(_, _, _)
path_matches(names, buffer, matches) ==
    IF names = <<>> THEN matches
    ELSE path_matches(Tail(names), buffer,
             IF starts_with(Head(names), buffer) /\ ~Contains(matches, Head(names))
             THEN Append(matches, Head(names)) ELSE matches)

\* matches after matches.sort()
candidates(buffer) ==
    SortSeq(path_matches(PathExecs, buffer, builtin_matches(SHELL_BUILTINS, buffer)), StrLess)

\* the 'outer loop as it would be if it compared the first match with itself only
lcp_from_first_only(matches, i, lcp_len) == Len(matches[1])

\* the 'outer loop: the length of the prefix all matches share with the first
RECURSIVE lcp_from(_, _, _)
lcp_from(matches, i, lcp_len) ==
    LET first == matches[1] IN
    IF i >= Len(first) THEN lcp_len
    ELSE IF \E k \in 1..Len(matches) :
                ~(i + 1 <= Len(matches[k]) /\ matches[k][i + 1] = first[i + 1])
         THEN lcp_len
         ELSE lcp_from(matches, i + 1, lcp_len + 1)

handle_multiple_matches(buffer, matches, count) ==
    IF count = 1
    THEN LET lcp_len == lcp_from(matches, Len(buffer), Len(buffer))
             extra == SubSeq(matches[1], Len(buffer) + 1, lcp_len)
         IN  IF lcp_len > Len(buffer)
             THEN [buffer |-> buffer \o extra, out |-> extra]
             ELSE [buffer |-> buffer, out |-> <<BEL>>]
    ELSE IF count >= 2
    THEN [buffer |-> buffer,
          out |-> <<NL>> \o <<CR>> \o join(matches, <<SP, SP>>) \o <<CR, NL>>
                  \o PROMPT \o buffer]
    ELSE [buffer |-> buffer, out |-> <<>>]

\* handle_autocomplete as it would be without buffer.push(' ') and the echoed space
handle_autocomplete_no_space(buffer, count) ==
    LET matches == candidates(buffer) IN
    IF Len(matches) = 0 THEN [buffer |-> buffer, out |-> <<BEL>>]
    ELSE IF Len(matches) = 1
    THEN LET completion == Drop(matches[1], Len(buffer))
         IN  [buffer |-> buffer \o completion, out |-> completion]
    ELSE handle_multiple_matches(buffer, matches, count)

handle_autocomplete(buffer, count) ==
    LET matches == candidates(buffer) IN
    IF Len(matches) = 0 THEN [buffer |-> buffer, out |-> <<BEL>>]
    ELSE IF Len(matches) = 1
    THEN LET completion == Drop(matches[1], Len(buffer))
         IN  [buffer |-> buffer \o completion \o <<SP>>, out |-> completion \o <<SP>>]
    ELSE handle_multiple_matches(buffer, matches, count)

-----------------------------------------------------------------------------
(* The file system and the files CommandContext::parse opens.              *)

\* the paths that can be created and written (one-letter names in the current
\* directory); opening any other path fails
FileNames == {<<"f">>}

\* the file system is keyed by the letter of the path
file_id(path) == path[1]
FileIds == {file_id(n) : n \in FileNames}

\* fs::OpenOptions ... .open(path).ok()
open_file(fs, path, append) ==
    IF path \in FileNames
    THEN [file |-> Some(path),
          fs |-> [fs EXCEPT ![file_id(path)] = IF append /\ @ # None THEN @ ELSE Some(<<>>)]]
    ELSE [file |-> None, fs |-> fs]

\* writeln!/write on an open file
write_file(fs, path, text) == [fs EXCEPT ![file_id(path)] = Some(@[1] \o text)]

\* CommandContext::parse: the scan, then the two opens (stdout first)
parse(tokens, fs) ==
    LET sc == parse_scan(tokens)
        o1 == IF sc.stdout_path = None THEN [file |-> None, fs |-> fs]
              ELSE open_file(fs, sc.stdout_path[1], sc.append_stdout)
        o2 == IF sc.stderr_path = None THEN [file |-> None, fs |-> o1.fs]
              ELSE open_file(o1.fs, sc.stderr_path[1], sc.append_stderr)
    IN  [argv |-> sc.argv, stdout_file |-> o1.file, stderr_file |-> o2.file, fs |-> o2.fs]

-----------------------------------------------------------------------------
(* The external programs of the search path.                               *)

\* printf FORMAT with no arguments: %% gives %, \\ gives \, \n a line feed;
\* any other directive ends the output (no argument to convert)
printf_step(st, f, i) ==
    LET c == f[i]
        next == IF i + 1 <= Len(f) THEN Some(f[i + 1]) ELSE None
    IN  IF st.stop THEN st
        ELSE IF st.skip THEN [st EXCEPT !.skip = FALSE]
        ELSE IF c = PCT
        THEN IF next = Some(PCT) THEN [st EXCEPT !.out = Append(@, PCT), !.skip = TRUE]
             ELSE [st EXCEPT !.stop = TRUE]
        ELSE IF c = BSL
        THEN IF next = Some(BSL) THEN [st EXCEPT !.out = Append(@, BSL), !.skip = TRUE]
             ELSE IF next = Some("n") THEN [st EXCEPT !.out = Append(@, NL), !.skip = TRUE]
             ELSE [st EXCEPT !.out = Append(@, BSL)]
        ELSE [st EXCEPT !.out = Append(@, c)]

RECURSIVE printf_range(_, _, _, _)
printf_range(st, f, lo, hi) ==
    IF lo > hi THEN st
    ELSE IF lo = hi THEN printf_step(st, f, lo)
    ELSE CHOOSE r \in {printf_range(m, f, ((lo + hi) \div 2) + 1, hi) :
                        m \in {printf_range(st, f, lo, (lo + hi) \div 2)}} : TRUE

printf_format(f) ==
    printf_range([out |-> <<>>, skip |-> FALSE, stop |-> FALSE], f, 1, Len(f)).out

RECURSIVE cat_files(_, _)
cat_files(names, fs) ==
    IF names = <<>> THEN <<>>
    ELSE (IF Head(names) \in FileNames /\ fs[file_id(Head(names))] # None
          THEN fs[file_id(Head(names))][1] ELSE <<>>) \o cat_files(Tail(names), fs)

\* what a program writes on its standard output, given its arguments and input
run_program(cmd, args, stdin, fs) ==
    IF cmd = W_cat THEN (IF args = <<>> THEN stdin ELSE cat_files(args, fs))
    ELSE IF cmd = W_printf THEN (IF args = <<>> THEN <<>> ELSE printf_format(args[1]))
    ELSE <<>>

\* a spawned process
Proc(cmd, args, stage, helper, from, to, input, fs) ==
    [cmd |-> cmd, args |-> args, stage |-> stage, helper |-> helper,
     stdin_from |-> from, stdout_to |-> to, input |-> input,
     output |-> run_program(cmd, args, input, fs), waited |-> FALSE]

-----------------------------------------------------------------------------
(* Messages. *)

M_is_builtin == <<" ", "i", "s", " ", "a", " ", "s", "h", "e", "l", "l", " ",
                  "b", "u", "i", "l", "t", "i", "n">>
M_is == <<" ", "i", "s", " ">>
M_not_found == <<":", " ", "n", "o", "t", " ", "f", "o", "u", "n", "d">>
M_cd == <<"c", "d", ":", " ">>
M_no_such == <<":", " ", "N", "o", " ", "s", "u", "c", "h", " ", "f", "i", "l", "e", " ",
               "o", "r", " ", "d", "i", "r", "e", "c", "t", "o", "r", "y">>

\* the text of `type query`
type_text(query) ==
    IF is_builtin(query) THEN query \o M_is_builtin
    ELSE IF find_in_path(query) # None THEN query \o M_is \o find_in_path(query)[1]
    ELSE query \o M_not_found

-----------------------------------------------------------------------------
(* execute_command: the result of running one plain command.  result is    *)
(* "true" or "false" (the value returned) or "panic"; out is what reached  *)
(* the terminal.                                                           *)

Effect(result, fs, dir, out, ps, raw_off) ==
    [result |-> result, fs |-> fs, cwd |-> dir, out |-> out, procs |-> ps, raw_off |-> raw_off]

\* writeln!(file, ..) when the stage has a stdout file, println! otherwise
to_stdout(ctx, dir, text) ==
    IF ctx.stdout_file # None
    THEN Effect("true", write_file(ctx.fs, ctx.stdout_file[1], text), dir, <<>>, <<>>, FALSE)
    ELSE Effect("true", ctx.fs, dir, text, <<>>, FALSE)

\* println!, whatever the stage's files
to_terminal(ctx, dir, text) == Effect("true", ctx.fs, dir, text, <<>>, FALSE)

cd_target(args, dir) ==
    LET path == IF args = <<>> THEN HomeDir
                ELSE IF Head(args[1]) = "~"
                     THEN LET rest == Tail(args[1]) IN
                          IF rest = <<>> THEN HomeDir
                          ELSE IF Head(rest) = "/" THEN rest
                          ELSE HomeDir \o <<"/">> \o rest
                     ELSE args[1]
    IN  IF Head(path) = "/" THEN path ELSE dir \o <<"/">> \o path

builtin_echo(ctx, args, dir) == to_stdout(ctx, dir, join(args, <<SP>>) \o <<NL>>)

builtin_type(ctx, args, dir) ==
    IF args = <<>> THEN Effect("true", ctx.fs, dir, <<>>, <<>>, FALSE)
    ELSE to_stdout(ctx, dir, type_text(args[1]) \o <<NL>>)

builtin_pwd(ctx, args, dir) == to_terminal(ctx, dir, dir \o <<NL>>)

builtin_cd(ctx, args, dir) ==
    IF cd_target(args, dir) \in Dirs
    THEN Effect("true", ctx.fs, cd_target(args, dir), <<>>, <<>>, FALSE)
    ELSE to_terminal(ctx, dir,
             M_cd \o (IF args = <<>> THEN <<"~">> ELSE args[1]) \o M_no_such \o <<NL>>)

builtin_exit(ctx, args, dir) == Effect("false", ctx.fs, dir, <<>>, <<>>, TRUE)

\* the `_` arm: an external command, run to completion by cmd.status()
run_external(ctx, command, args, dir) ==
    IF find_in_path(command) # None
    THEN LET to == IF ctx.stdout_file # None THEN "file" ELSE "tty"
             p == Proc(command, args, 1, FALSE, None, to, <<>>, ctx.fs)
         IN  Effect("true",
                    IF to = "file" THEN write_file(ctx.fs, ctx.stdout_file[1], p.output)
                    ELSE ctx.fs,
                    dir,
                    IF to = "tty" THEN p.output ELSE <<>>,
                    <<[p EXCEPT !.waited = TRUE]>>, FALSE)
    ELSE to_terminal(ctx, dir, command \o M_not_found \o <<NL>>)

execute_command(input, fs, dir) ==
    LET ctx == parse(tokenize(input), fs) IN
    IF ctx.argv = <<>> THEN Effect("panic", ctx.fs, dir, <<>>, <<>>, FALSE)
    ELSE LET command == ctx.argv[1]
             args == Tail(ctx.argv)
         IN  IF command = W_exit THEN builtin_exit(ctx, args, dir)
             ELSE IF command = W_echo THEN builtin_echo(ctx, args, dir)
             ELSE IF command = W_type THEN builtin_type(ctx, args, dir)
             ELSE IF command = W_pwd THEN builtin_pwd(ctx, args, dir)
             ELSE IF command = W_cd THEN builtin_cd(ctx, args, dir)
             ELSE run_external(ctx, command, args, dir)

-----------------------------------------------------------------------------
(* run_builtin_capture and string_to_stdio *)

run_builtin_capture(ctx, dir) ==
    IF ctx.argv[1] = W_echo
    THEN [panic |-> FALSE, output |-> join(Tail(ctx.argv), <<SP>>) \o <<NL>>]
    ELSE IF ctx.argv[1] = W_pwd THEN [panic |-> FALSE, output |-> dir \o <<NL>>]
    ELSE IF ctx.argv[1] = W_type
    THEN IF Len(ctx.argv) < 2 THEN [panic |-> TRUE, output |-> <<>>]
         ELSE [panic |-> FALSE, output |-> type_text(ctx.argv[2]) \o <<NL>>]
    ELSE [panic |-> FALSE, output |-> <<>>]

\* the helper process: printf with the captured text as its format
string_to_stdio(input, stage, fs) ==
    Proc(W_printf, <<input>>, stage, TRUE, None, "pipe", <<>>, fs)

-----------------------------------------------------------------------------
(* The keys the user presses.  A key is typed only while the buffer stays  *)
(* a prefix of one of the Scripts, or short and made of FreeKeys.          *)

L_exit        == W_exit
L_exit_cat    == W_exit \o <<SP, PIPE, SP>> \o W_cat
L_x_cat       == <<"x", SP, PIPE, SP>> \o W_cat
L_redirect    == <<GT, SP, "f">>
L_cat_pipe    == W_cat \o <<SP, PIPE>>
L_type_cat    == W_type \o <<SP, PIPE, SP>> \o W_cat
L_echo_cat    == W_echo \o <<SP, "a", SP, PIPE, SP>> \o W_cat
L_echo_pct    == W_echo \o <<SP, PCT, PCT, SP, PIPE, SP>> \o W_cat
L_echo_cat_f  == W_echo \o <<SP, "a", SP, PIPE, SP>> \o W_cat \o <<SP, GT, SP, "f">>
L_pwd_echo_f  == W_pwd \o <<SP, PIPE, SP>> \o W_echo \o <<SP, "a", SP, GT, SP, "f">>
L_pwd_f       == W_pwd \o <<SP, GT, SP, "f">>
L_echo_f      == W_echo \o <<SP, "a", SP, GT, SP, "f">>
L_cd_f        == W_cd \o <<SP, "x", SP, GT, SP, "f">>
L_type_f      == W_type \o <<SP, W_cd[1], W_cd[2], SP, GT, SP, "f">>
L_pr          == <<"p", "r">>
L_three       == W_cat \o <<SP, PIPE, SP>> \o W_pwd \o <<SP, PIPE, SP>> \o W_cat
L_quoted_pipe == W_echo \o <<SP, SQ, "a", PIPE, "b", SQ>>

Scripts == {L_exit, L_exit_cat, L_x_cat, L_redirect, L_cat_pipe, L_type_cat, L_echo_cat,
            L_echo_pct, L_echo_cat_f, L_pwd_echo_f, L_pwd_f, L_echo_f, L_cd_f, L_type_f,
            L_pr, L_three, L_quoted_pipe}

FreeKeys == {"e", SP, BS}

Keys == FreeKeys \cup UNION {Range(s) : s \in Scripts}

Typable(buffer) ==
    \/ Len(buffer) <= MaxFree /\ Range(buffer) \subseteq FreeKeys
    \/ \E s \in Scripts : starts_with(s, buffer)

-----------------------------------------------------------------------------
(* main *)

ShellStart ==
    /\ pc = "prompt"
    /\ raw = FALSE
    /\ input_buffer = <<>>
    /\ tab_count = 0
    /\ row = <<>>
    /\ col = 0
    /\ term_out = <<>>
    /\ files = [n \in FileIds |-> None]
    /\ cwd = StartDir
    /\ procs = <<>>
    /\ line = <<>>
    /\ segments = <<>>
    /\ seg_i = 0
    /\ prev_stdout = None
    /\ children = <<>>
    /\ cont = TRUE
    /\ cause = ""
    /\ submitted = 0
    /\ tab_run = 0
    /\ ac_count = 0
    /\ key_out = <<>>

Init ==
    /\ ShellStart
    /\ fn_pc = "idle"
    /\ fn_input = <<>>
    /\ fn_result = <<>>
    /\ fn_again = <<>>

\* print!/println! from the shell or a child's write to the terminal
Emit(text) ==
    \E t \in {term_write(Term, text, raw)} :
        /\ row' = t.row
        /\ col' = t.col

exec_vars == <<line, segments, seg_i, prev_stdout, children, cont>>
edit_vars == <<input_buffer, tab_count, tab_run, ac_count, key_out>>
env_vars == <<files, cwd, procs, term_out>>

\* the top of the outer loop: the prompt, input_buffer.clear(), set_raw_mode(true)
Prompt ==
    /\ pc = "prompt"
    /\ Emit(PROMPT)
    /\ input_buffer' = <<>>
    /\ set_raw_mode(TRUE)
    /\ pc' = "read"
    /\ term_out' = <<>>
    /\ procs' = <<>>
    /\ line' = <<>>
    /\ segments' = <<>>
    /\ seg_i' = 0
    /\ prev_stdout' = None
    /\ children' = <<>>
    /\ UNCHANGED <<tab_count, files, cwd, cont, cause, submitted, tab_run, ac_count, key_out>>
    /\ UNCHANGED fn_vars

\* read_exact(..).unwrap() when the read fails or the input has ended
ReadFail ==
    /\ pc = "read"
    /\ pc' = "panicked"
    /\ cause' = "read"
    /\ UNCHANGED <<raw, row, col, submitted>>
    /\ UNCHANGED <<edit_vars, env_vars, exec_vars>>
    /\ UNCHANGED fn_vars

\* Enter as it would be with println!() before set_raw_mode(false)
Enter_newline_before_cooked ==
    /\ pc = "read"
    /\ submitted < MaxLines
    /\ \E c \in {CR, NL} :
        /\ tab_count' = 0
        /\ row' = term_write(Term, <<NL>>, raw).row
        /\ col' = term_write(Term, <<NL>>, raw).col
        /\ set_raw_mode(FALSE)
        /\ IF input_buffer # <<>>
           THEN pc' = "exec" /\ line' = trim(input_buffer)
           ELSE pc' = "prompt" /\ line' = line
    /\ submitted' = submitted + 1
    /\ tab_run' = 0
    /\ ac_count' = 0
    /\ key_out' = <<NL>>
    /\ UNCHANGED <<input_buffer, segments, seg_i, prev_stdout, children, cont, cause>>
    /\ UNCHANGED env_vars
    /\ UNCHANGED fn_vars

\* '\r' | '\n'
Enter ==
    /\ pc = "read"
    /\ submitted < MaxLines
    /\ \E c \in {CR, NL} :
        /\ tab_count' = 0
        /\ set_raw_mode(FALSE)
        /\ row' = term_write(Term, <<NL>>, FALSE).row
        /\ col' = term_write(Term, <<NL>>, FALSE).col
        /\ IF input_buffer # <<>>
           THEN pc' = "exec" /\ line' = trim(input_buffer)
           ELSE pc' = "prompt" /\ line' = line
    /\ submitted' = submitted + 1
    /\ tab_run' = 0
    /\ ac_count' = 0
    /\ key_out' = <<NL>>
    /\ UNCHANGED <<input_buffer, segments, seg_i, prev_stdout, children, cont, cause>>
    /\ UNCHANGED env_vars
    /\ UNCHANGED fn_vars

\* '\t'
PressTab ==
    /\ pc = "read"
    /\ tab_count < MaxTabs
    /\ tab_count' = tab_count + 1
    /\ tab_run' = tab_run + 1
    /\ ac_count' = tab_count + 1
    /\ \E r \in {handle_autocomplete(input_buffer, tab_count + 1)} :
        /\ input_buffer' = r.buffer
        /\ Emit(r.out)
        /\ key_out' = r.out
    /\ UNCHANGED <<pc, raw, cause, submitted>>
    /\ UNCHANGED <<env_vars, exec_vars>>
    /\ UNCHANGED fn_vars

\* Backspace as it would be if only the final arm of the match reset the Tab counter
Backspace_keeps_tab_count ==
    /\ pc = "read"
    /\ tab_count' = tab_count
    /\ tab_run' = 0
    /\ ac_count' = 0
    /\ IF input_buffer # <<>>
       THEN /\ input_buffer' = Front(input_buffer)
            /\ Emit(<<BS, SP, BS>>)
            /\ key_out' = <<BS, SP, BS>>
       ELSE /\ UNCHANGED <<input_buffer, row, col>>
            /\ key_out' = <<>>
    /\ UNCHANGED <<pc, raw, cause, submitted>>
    /\ UNCHANGED <<env_vars, exec_vars>>
    /\ UNCHANGED fn_vars

\* '\x7f'
Backspace ==
    /\ pc = "read"
    /\ tab_count' = 0
    /\ tab_run' = 0
    /\ ac_count' = 0
    /\ IF input_buffer # <<>>
       THEN /\ input_buffer' = Front(input_buffer)
            /\ Emit(<<BS, SP, BS>>)
            /\ key_out' = <<BS, SP, BS>>
       ELSE /\ UNCHANGED <<input_buffer, row, col>>
            /\ key_out' = <<>>
    /\ UNCHANGED <<pc, raw, cause, submitted>>
    /\ UNCHANGED <<env_vars, exec_vars>>
    /\ UNCHANGED fn_vars

\* Ctrl-C as it would be without the set_raw_mode(false) before exit(0)
CtrlC_keeps_raw_mode ==
    /\ pc = "read"
    /\ tab_count' = 0
    /\ tab_run' = 0
    /\ ac_count' = 0
    /\ raw' = raw
    /\ pc' = "exited"
    /\ cause' = "ctrl-c"
    /\ key_out' = <<>>
    /\ UNCHANGED <<input_buffer, row, col, submitted>>
    /\ UNCHANGED <<env_vars, exec_vars>>
    /\ UNCHANGED fn_vars

\* '\x03'
CtrlC ==
    /\ pc = "read"
    /\ tab_count' = 0
    /\ tab_run' = 0
    /\ ac_count' = 0
    /\ set_raw_mode(FALSE)
    /\ pc' = "exited"
    /\ cause' = "ctrl-c"
    /\ key_out' = <<>>
    /\ UNCHANGED <<input_buffer, row, col, submitted>>
    /\ UNCHANGED <<env_vars, exec_vars>>
    /\ UNCHANGED fn_vars

\* any other byte
TypeChar ==
    /\ pc = "read"
    /\ \E c \in Keys :
        /\ Typable(Append(input_buffer, c))
        /\ input_buffer' = Append(input_buffer, c)
        /\ Emit(<<c>>)
        /\ key_out' = <<c>>
    /\ tab_count' = 0
    /\ tab_run' = 0
    /\ ac_count' = 0
    /\ UNCHANGED <<pc, raw, cause, submitted>>
    /\ UNCHANGED <<env_vars, exec_vars>>
    /\ UNCHANGED fn_vars

-----------------------------------------------------------------------------
(* execute_pipeline *)

\* a line without '|': execute_command
ExecuteCommand ==
    /\ pc = "exec"
    /\ ~Contains(line, PIPE)
    /\ \E e \in {execute_command(line, files, cwd)} :
        /\ files' = e.fs
        /\ cwd' = e.cwd
        /\ procs' = e.procs
        /\ term_out' = term_out \o e.out
        /\ Emit(e.out)
        /\ raw' = IF e.raw_off THEN FALSE ELSE raw
        /\ pc' = IF e.result = "panic" THEN "panicked" ELSE "returned"
        /\ cause' = IF e.result = "panic" THEN "panic" ELSE cause
        /\ cont' = (e.result = "true")
    /\ UNCHANGED <<edit_vars, line, segments, seg_i, prev_stdout, children, submitted>>
    /\ UNCHANGED fn_vars

\* the split as it would be without .map(|s| s.trim())
split_segments_untrimmed(input) == split(input, PIPE)

\* input.split('|').map(|s| s.trim()).collect()
split_segments(input) ==
    [i \in 1..Len(split(input, PIPE)) |-> trim(split(input, PIPE)[i])]

StartPipeline ==
    /\ pc = "exec"
    /\ Contains(line, PIPE)
    /\ segments' = split_segments(line)
    /\ seg_i' = 1
    /\ prev_stdout' = None
    /\ children' = <<>>
    /\ pc' = "stage"
    /\ UNCHANGED <<raw, row, col, line, cont, cause, submitted>>
    /\ UNCHANGED <<edit_vars, env_vars>>
    /\ UNCHANGED fn_vars

\* one iteration of the loop over the segments: what it does to the pipeline
StageResult(panic, fs, ps, prev, kids, out) ==
    [panic |-> panic, fs |-> fs, procs |-> ps, prev_stdout |-> prev, children |-> kids,
     out |-> out]

\* the builtin branch as it would be if it kept an output endpoint already held
stage_builtin_keeps_prev(ctx, i, is_last) ==
    LET r == run_builtin_capture(ctx, cwd) IN
    IF r.panic THEN StageResult(TRUE, ctx.fs, procs, prev_stdout, children, <<>>)
    ELSE IF is_last
    THEN StageResult(FALSE, ctx.fs, procs, prev_stdout, children, r.output)
    ELSE IF find_in_path(W_printf) = None
    THEN StageResult(TRUE, ctx.fs, procs, prev_stdout, children, <<>>)
    ELSE StageResult(FALSE, ctx.fs, Append(procs, string_to_stdio(r.output, i, ctx.fs)),
                     IF prev_stdout = None THEN Some(Len(procs) + 1) ELSE prev_stdout,
                     children, <<>>)

\* the branch for a builtin stage
stage_builtin(ctx, i, is_last) ==
    LET r == run_builtin_capture(ctx, cwd) IN
    IF r.panic THEN StageResult(TRUE, ctx.fs, procs, prev_stdout, children, <<>>)
    ELSE IF is_last
    THEN StageResult(FALSE, ctx.fs, procs, prev_stdout, children, r.output)
    ELSE IF find_in_path(W_printf) = None
    THEN StageResult(TRUE, ctx.fs, procs, prev_stdout, children, <<>>)
    ELSE StageResult(FALSE, ctx.fs, Append(procs, string_to_stdio(r.output, i, ctx.fs)),
                     Some(Len(procs) + 1), children, <<>>)

\* the branch for an external stage
stage_external(ctx, i, is_last) ==
    IF find_in_path(ctx.argv[1]) = None
    THEN StageResult(TRUE, ctx.fs, procs, prev_stdout, children, <<>>)
    ELSE LET input == IF prev_stdout = None THEN <<>> ELSE procs[prev_stdout[1]].output
             p == Proc(ctx.argv[1], Tail(ctx.argv), i, FALSE, prev_stdout,
                       IF is_last THEN "tty" ELSE "pipe", input, ctx.fs)
         IN  StageResult(FALSE, ctx.fs, Append(procs, p),
                         IF is_last THEN None ELSE Some(Len(procs) + 1),
                         Append(children, Len(procs) + 1),
                         IF is_last THEN p.output ELSE <<>>)

pipeline_stage(i) ==
    LET is_last == i = Len(segments)
        ctx == parse(tokenize(segments[i]), files)
    IN  IF ctx.argv = <<>>
        THEN StageResult(TRUE, ctx.fs, procs, prev_stdout, children, <<>>)
        ELSE IF is_builtin(ctx.argv[1]) THEN stage_builtin(ctx, i, is_last)
        ELSE stage_external(ctx, i, is_last)

PipelineStage ==
    /\ pc = "stage"
    /\ \E r \in {pipeline_stage(seg_i)} :
        /\ files' = r.fs
        /\ procs' = r.procs
        /\ prev_stdout' = r.prev_stdout
        /\ children' = r.children
        /\ term_out' = term_out \o r.out
        /\ Emit(r.out)
        /\ pc' = IF r.panic THEN "panicked"
                 ELSE IF seg_i = Len(segments) THEN "wait" ELSE "stage"
        /\ cause' = IF r.panic THEN "panic" ELSE cause
        /\ seg_i' = IF r.panic THEN seg_i ELSE seg_i + 1
    /\ UNCHANGED <<raw, cwd, line, segments, cont, submitted>>
    /\ UNCHANGED edit_vars
    /\ UNCHANGED fn_vars

\* for mut child in children { child.wait() }
wait_children(ps, kids) ==
    [k \in 1..Len(ps) |-> IF Contains(kids, k) THEN [ps[k] EXCEPT !.waited = TRUE] ELSE ps[k]]

WaitChildren ==
    /\ pc = "wait"
    /\ procs' = wait_children(procs, children)
    /\ cont' = TRUE
    /\ pc' = "returned"
    /\ UNCHANGED <<raw, row, col, term_out, files, cwd, cause, submitted>>
    /\ UNCHANGED <<edit_vars, line, segments, seg_i, prev_stdout, children>>
    /\ UNCHANGED fn_vars

\* back in main: exit(0) when execute_pipeline returned false, else break
Return ==
    /\ pc = "returned"
    /\ IF cont
       THEN pc' = "prompt" /\ cause' = cause
       ELSE pc' = "exited" /\ cause' = "exit"
    /\ UNCHANGED <<raw, row, col, submitted>>
    /\ UNCHANGED <<edit_vars, env_vars, exec_vars>>
    /\ UNCHANGED fn_vars

Next ==
    \/ Prompt
    \/ ReadFail
    \/ Enter
    \/ PressTab
    \/ Backspace
    \/ CtrlC
    \/ TypeChar
    \/ ExecuteCommand
    \/ StartPipeline
    \/ PipelineStage
    \/ WaitChildren
    \/ Return

Spec == Init /\ [][Next]_vars

-----------------------------------------------------------------------------
(* tokenize and CommandContext::parse called on their own, on every line   *)
(* and every token sequence of a bounded set.                              *)

\* the characters of the lines: a letter, the space, the quoting characters and `$`
LineChars == {"a", SP, SQ, DQ, BSL, DOLLAR, NL}

\* echo 'a   b' "c\"d"
LineExample ==
    W_echo \o <<SP, SQ, "a", SP, SP, SP, "b", SQ, SP, DQ, "c", BSL, DQ, "d", DQ>>

Lines == UNION {[1..n -> LineChars] : n \in 0..MaxLen} \cup {LineExample}

\* the tokens of the token sequences: the six operators and two words
TokenWords == {OpOut, OpOut1, OpAppend, OpAppend1, OpErr, OpErrAppend, <<"a">>, <<"f">>}

\* cmd 1> out.txt arg
TokensExample ==
    << <<"c", "m", "d">>, OpOut1, <<"o", "u", "t", ".", "t", "x", "t">>, <<"a", "r", "g">> >>

TokenSeqs == UNION {[1..n -> TokenWords] : n \in 0..MaxTokens} \cup {TokensExample}

FnInit ==
    /\ ShellStart
    /\ \/ fn_pc = "line" /\ fn_input \in Lines
       \/ fn_pc = "tokens" /\ fn_input \in TokenSeqs
    /\ fn_result = <<>>
    /\ fn_again = <<>>

\* tokenize(line)
CallTokenize ==
    /\ fn_pc = "line"
    /\ fn_result' = tokenize(fn_input)
    /\ fn_pc' = "tokenized"
    /\ UNCHANGED <<fn_input, fn_again>>
    /\ UNCHANGED shell_vars

\* tokenize(tokens.join(" "))
CallTokenizeAgain ==
    /\ fn_pc = "tokenized"
    /\ fn_again' = tokenize(join(fn_result, <<SP>>))
    /\ fn_pc' = "rejoined"
    /\ UNCHANGED <<fn_input, fn_result>>
    /\ UNCHANGED shell_vars

\* CommandContext::parse(tokens): the scan
CallParse ==
    /\ fn_pc = "tokens"
    /\ fn_result' = parse_scan(fn_input)
    /\ fn_pc' = "parsed"
    /\ UNCHANGED <<fn_input, fn_again>>
    /\ UNCHANGED shell_vars

FnNext ==
    \/ CallTokenize
    \/ CallTokenizeAgain
    \/ CallParse

FnSpec == FnInit /\ [][FnNext]_vars

-----------------------------------------------------------------------------
(* Properties *)

\* the argument vector of the line executed as a single command
line_argv == parse_scan(tokenize(line)).argv

\* the argument vector and the redirection of pipeline stage i
stage_scan(i) == parse_scan(tokenize(segments[i]))
stage_argv(i) == stage_scan(i).argv

\* C1: whenever the shell process has terminated through one of its exit paths
\* (the exit builtin or Ctrl-C), the terminal is in cooked mode.
C1_CookedModeOnExit ==
    pc = "exited" => (cause \in {"exit", "ctrl-c"} /\ ~raw)

\* a line was executed, the next line was being edited (raw mode on), and the
\* shell then terminated through Ctrl-C
C1_Witness_CtrlC ==
    pc = "exited" /\ cause = "ctrl-c" /\ submitted >= 1 /\ input_buffer # <<>>

\* C2: when a pipeline stage names a command that is neither a builtin nor found
\* on the PATH, the executor does not abort: the shell goes on to the next prompt.
C2_UnstartableStageContinues ==
    (/\ segments # <<>>
     /\ seg_i \in 1..Len(segments)
     /\ stage_argv(seg_i) # <<>>
     /\ ~is_builtin(stage_argv(seg_i)[1])
     /\ find_in_path(stage_argv(seg_i)[1]) = None)
    => pc # "panicked"

\* C3: the execution of a submitted line whose argument vector is empty, or of a
\* pipeline stage that is empty or a type without an argument, returns to the
\* main loop: no failure escapes from the executor.
C3_ShortArgvReturns ==
    cause = "panic" =>
        IF segments = <<>> THEN line_argv # <<>>
        ELSE /\ stage_argv(seg_i) # <<>>
             /\ ~(stage_argv(seg_i)[1] = W_type /\ Len(stage_argv(seg_i)) < 2)

\* C4: when a multi-stage pipeline has returned, every process spawned for it
\* has been waited for.
C4_AllSpawnedWaited ==
    (pc = "returned" /\ segments # <<>>) =>
        \A k \in 1..Len(procs) : procs[k].waited

\* C5: the standard input of the stage that follows a builtin stage is exactly
\* the text the builtin produced.
C5_BuiltinOutputUnmodified ==
    \A k \in 1..Len(procs) :
        (procs[k].stdin_from # None /\ procs[procs[k].stdin_from[1]].helper)
        => procs[k].input = procs[procs[k].stdin_from[1]].args[1]

\* the last stage of the pipeline carries a stdout redirection whose file opened
last_stage_redirected ==
    /\ segments # <<>>
    /\ stage_scan(Len(segments)).stdout_path # None
    /\ stage_scan(Len(segments)).stdout_path[1] \in FileNames

\* C6: when the last stage of a multi-stage pipeline carries a stdout
\* redirection, its output is in the file and nothing went to the terminal.
C6_LastStageRedirection ==
    (pc = "returned" /\ last_stage_redirected) =>
        /\ term_out = <<>>
        /\ files[file_id(stage_scan(Len(segments)).stdout_path[1])] # Some(<<>>)

\* the line was a single builtin command with a stdout redirection whose file opened
single_builtin_redirected ==
    /\ segments = <<>>
    /\ line_argv # <<>>
    /\ is_builtin(line_argv[1])
    /\ parse_scan(tokenize(line)).stdout_path # None
    /\ parse_scan(tokenize(line)).stdout_path[1] \in FileNames

\* C7: a builtin run as a single command with a stdout redirection writes
\* nothing to the terminal.
C7_BuiltinOutputToFile ==
    (pc = "returned" /\ single_builtin_redirected) => term_out = <<>>

\* exit was executed, as the single command or as a stage of the pipeline
exit_executed ==
    IF segments = <<>> THEN line_argv # <<>> /\ line_argv[1] = W_exit
    ELSE \E i \in 1..Len(segments) : stage_argv(i) # <<>> /\ stage_argv(i)[1] = W_exit

\* C8: whenever exit has been executed, the executor's result is "do not
\* continue" and the shell terminates.
C8_ExitStopsShell ==
    (pc = "returned" /\ exit_executed) => ~cont

\* C9: tab_count is the number of Tab presses since the most recent key that
\* was not Tab, and the k-th consecutive Tab calls autocompletion with count k.
C9_TabCountIsTabRun ==
    /\ tab_count = tab_run
    /\ ac_count = tab_run

\* a second consecutive Tab was pressed after other keys
C9_Witness_SecondTab ==
    pc = "read" /\ tab_run = 2 /\ ac_count = 2 /\ input_buffer # <<>>

\* C10: while a line is edited, the terminal shows the prompt followed by
\* exactly the contents of input_buffer, up to the cursor.
C10_BufferIsShownText ==
    pc = "read" =>
        LET want == PROMPT \o input_buffer
            have == shown(Term)
        IN  /\ Len(have) >= Len(want)
            /\ Drop(have, Len(have) - Len(want)) = want

\* the candidate set of a buffer: the builtin names and the executables of the
\* search path that start with the buffer
candidate_set(buffer) ==
    {n \in Range(SHELL_BUILTINS) \cup Range(PathExecs) : starts_with(n, buffer)}

\* the names of a set in lexicographic order, each once
in_order(names) ==
    [i \in 1..Cardinality(names) |->
        CHOOSE n \in names : Cardinality({m \in names : StrLess(m, n)}) = i - 1]

\* the longest string that is a prefix of every name of a non-empty set
common_prefix(names) ==
    LET one == CHOOSE n \in names : TRUE
        shared == {k \in 0..Len(one) : \A n \in names : Len(n) >= k /\ Take(n, k) = Take(one, k)}
    IN  Take(one, CHOOSE k \in shared : \A j \in shared : j <= k)

\* C11: a Tab press on a buffer with exactly one candidate leaves the buffer equal
\* to the candidate followed by one space and echoes the missing suffix and the
\* space, whatever the Tab count; with no candidate it rings the bell and leaves
\* the buffer unchanged.
C11_SingleOrNoCandidate ==
    [][tab_count' = tab_count + 1 =>
          LET c == candidate_set(input_buffer) IN
          /\ Cardinality(c) = 1 =>
                \E n \in c : /\ input_buffer' = n \o <<SP>>
                             /\ key_out' = Drop(n, Len(input_buffer)) \o <<SP>>
          /\ c = {} => (input_buffer' = input_buffer /\ key_out' = <<BEL>>)]_vars

\* `ec` was completed to `echo ` by one Tab (echo is a builtin and a program of
\* the search path: one candidate)
C11_Witness_Completed ==
    /\ pc = "read" /\ tab_run = 1
    /\ input_buffer = W_echo \o <<SP>>
    /\ key_out = <<"h", "o", SP>>

without_cr(text) == SelectSeq(text, LAMBDA ch : ch # CR)

\* C13: a second or later Tab on a buffer with two or more candidates leaves the
\* buffer unchanged and prints three lines: an empty one, the candidates in
\* lexicographic order, each once, separated by two spaces, and the prompt
\* followed by the buffer.
C13_SecondTabListing ==
    [][(tab_count >= 1 /\ tab_count' = tab_count + 1
        /\ Cardinality(candidate_set(input_buffer)) >= 2) =>
          /\ input_buffer' = input_buffer
          /\ split(without_cr(key_out'), NL) =
                << <<>>, join(in_order(candidate_set(input_buffer)), <<SP, SP>>),
                   PROMPT \o input_buffer >>]_vars

\* the second Tab on `e` listed echo and exit and reprinted the prompt and `e`
C13_Witness_Listed ==
    /\ pc = "read" /\ tab_run = 2 /\ input_buffer = <<"e">>
    /\ shown(Term) = PROMPT \o <<"e">>
    /\ Len(key_out) > Len(PROMPT) + 1

captured(i) == run_builtin_capture([argv |-> stage_argv(i)], cwd).output

\* C18: the processes of a pipeline are spawned in the order of the stages; an
\* external stage after the first reads the output of the stage just before it,
\* an endpoint that existed when the stage was spawned and, for a builtin stage,
\* carries the builtin's complete text; the first stage's input is not rebound.
C18_StagesChained ==
    \A k \in 1..Len(procs) :
        LET p == procs[k] IN
        /\ \A j \in 1..(k - 1) : procs[j].stage <= p.stage
        /\ p.stage = 1 => p.stdin_from = None
        /\ (p.stage > 1 /\ ~p.helper) =>
              /\ p.stdin_from # None
              /\ p.stdin_from[1] < k
              /\ procs[p.stdin_from[1]].stage = p.stage - 1
              /\ procs[p.stdin_from[1]].stdout_to = "pipe"
              /\ p.input = procs[p.stdin_from[1]].output
              /\ procs[p.stdin_from[1]].helper =>
                    procs[p.stdin_from[1]].args = <<captured(p.stage - 1)>>

\* the three stages of `cat | pwd | cat` were processed: cat, the helper that
\* carries pwd's text, and the last cat reading from the helper
C18_Witness_ThreeStages ==
    /\ pc = "returned" /\ Len(segments) = 3 /\ Len(procs) = 3
    /\ procs[3].stdin_from = Some(2) /\ procs[2].helper

\* the number of `|` characters of a text, and the text without its whitespace
pipes(text) == Cardinality({i \in 1..Len(text) : text[i] = PIPE})
squeeze(text) == SelectSeq(text, LAMBDA ch : ch \notin Whitespace)

\* C19: a line with n >= 1 `|` characters, quoted or not, is cut at every one
\* of them into n + 1 whitespace-trimmed stages, each tokenized on its own; a
\* line without `|` is executed as one plain command.
C19_TextualSplit ==
    /\ segments # <<>> =>
          /\ Len(segments) = pipes(line) + 1
          /\ \A i \in 1..Len(segments) :
                /\ pipes(segments[i]) = 0
                /\ segments[i] = trim(segments[i])
          /\ squeeze(join(segments, <<PIPE>>)) = squeeze(line)
    /\ pc \in {"stage", "wait"} => segments # <<>>
    /\ pc = "returned" => (segments = <<>> <=> pipes(line) = 0)
    /\ \A k \in 1..Len(procs) :
          (segments # <<>> /\ procs[k].helper) =>
              procs[k].args = <<captured(procs[k].stage)>>

\* the line echo 'a|b' was cut inside the quotes: the first stage, echo 'a,
\* produced a and the second, b', was looked up as the command b
C19_Witness_QuotedPipe ==
    /\ line = L_quoted_pipe /\ Len(segments) = 2 /\ seg_i = 2
    /\ procs # <<>> /\ procs[1].args = << <<"a", NL>> >>
    /\ stage_argv(2) = << <<"b">> >>

\* C20: when the process ends because reading a key from the terminal failed
\* or the input ended, the terminal is in cooked mode.
C20_CookedModeOnReadFailure ==
    (pc = "panicked" /\ cause = "read") => ~raw

\* The three-state machine of the tokenizer.  mode is the state, acc the token
\* being built, esc what a backslash just read still asks for: "next" (NORMAL:
\* the next character is appended verbatim) or "dq" (IN_DOUBLE_QUOTE: the next
\* character decides whether the backslash is kept).
machine_step(m, c) ==
    IF m.esc = "next" THEN [m EXCEPT !.acc = Append(@, c), !.esc = "none"]
    ELSE IF m.esc = "dq"
    THEN IF c \in {BSL, DQ, DOLLAR, NL}
         THEN [m EXCEPT !.acc = Append(@, c), !.esc = "none"]
         ELSE [m EXCEPT !.acc = @ \o <<BSL, c>>, !.esc = "none"]
    ELSE IF m.mode = "NORMAL"
    THEN IF c = SP
         THEN (IF m.acc # <<>> THEN [m EXCEPT !.tokens = Append(@, m.acc), !.acc = <<>>] ELSE m)
         ELSE IF c = SQ THEN [m EXCEPT !.mode = "IN_SINGLE_QUOTE"]
         ELSE IF c = DQ THEN [m EXCEPT !.mode = "IN_DOUBLE_QUOTE"]
         ELSE IF c = BSL THEN [m EXCEPT !.esc = "next"]
         ELSE [m EXCEPT !.acc = Append(@, c)]
    ELSE IF m.mode = "IN_SINGLE_QUOTE"
    THEN IF c = SQ THEN [m EXCEPT !.mode = "NORMAL"]
         ELSE [m EXCEPT !.acc = Append(@, c)]
    ELSE IF c = DQ THEN [m EXCEPT !.mode = "NORMAL"]
         ELSE IF c = BSL THEN [m EXCEPT !.esc = "dq"]
         ELSE [m EXCEPT !.acc = Append(@, c)]

RECURSIVE machine_range(_, _, _, _)
machine_range(m, text, lo, hi) ==
    IF lo > hi THEN m
    ELSE IF lo = hi THEN machine_step(m, text[lo])
    ELSE CHOOSE r \in {machine_range(h, text, ((lo + hi) \div 2) + 1, hi) :
                        h \in {machine_range(m, text, lo, (lo + hi) \div 2)}} : TRUE

\* the machine at the end of the text
machine_end(text) ==
    machine_range([mode |-> "NORMAL", tokens |-> <<>>, acc |-> <<>>, esc |-> "none"],
                  text, 1, Len(text))

\* the tokens of the machine: the completed ones and the one being built, if any
machine_tokens(text) ==
    LET m == machine_end(text) IN
    IF m.acc # <<>> THEN Append(m.tokens, m.acc) ELSE m.tokens

\* C14: for every line over letters, space, ', ", \ and $ (and newline), tokenize
\* returns the tokens of the three-state machine; the line echo 'a   b' "c\"d"
\* gives echo, a   b, c"d.  (A line that ends in a backslash inside double
\* quotes is left out: the machine does not say what a backslash followed by
\* nothing yields.)
C14_TokenizeIsTheMachine ==
    (fn_pc = "tokenized" /\ machine_end(fn_input).esc # "dq") =>
        /\ fn_result = machine_tokens(fn_input)
        /\ fn_input = LineExample =>
              fn_result = <<W_echo, <<"a", SP, SP, SP, "b">>, <<"c", DQ, "d">> >>

\* the line of the example was tokenized
C14_Witness_Example ==
    /\ fn_pc = "tokenized" /\ fn_input = LineExample
    /\ fn_result = <<W_echo, <<"a", SP, SP, SP, "b">>, <<"c", DQ, "d">> >>

\* no quoting is present in the line
unquoted(text) == \A i \in 1..Len(text) : text[i] \notin {SQ, DQ, BSL}

\* C15: for a line without ', " and backslash, joining the tokens with single
\* spaces and tokenizing again gives the same tokens.
C15_RejoinIsIdempotent ==
    (fn_pc = "rejoined" /\ unquoted(fn_input)) => fn_again = fn_result

\* a line with repeated spaces between two words was tokenized, joined and
\* tokenized again
C15_Witness_RepeatedSpaces ==
    /\ fn_pc = "rejoined" /\ fn_input = <<"a", SP, SP, "a">>
    /\ fn_again = << <<"a">>, <<"a">> >>

\* the redirection operators, by stream and by mode
StdoutOps == {OpOut, OpOut1, OpAppend, OpAppend1}
StderrOps == {OpErr, OpErrAppend}
AppendOps == {OpAppend, OpAppend1, OpErrAppend}

\* the first index of the unbroken run of operator words that ends at index i
run_start(tokens, i) ==
    CHOOSE s \in 1..i :
        /\ \A j \in s..i : tokens[j] \in StdoutOps \cup StderrOps
        /\ \A r \in 1..(s - 1) : \E j \in r..i : tokens[j] \notin StdoutOps \cup StderrOps

\* token i is a redirection operator: by its text alone, or (scanned) by its text
\* and not being the token consumed as the path of the operator before it
operator_at(tokens, i, scanned) ==
    /\ tokens[i] \in StdoutOps \cup StderrOps
    /\ scanned => (i - run_start(tokens, i)) % 2 = 0

\* the tokens at the indices of a set, in their order
picked(tokens, indices) ==
    [n \in 1..Cardinality(indices) |->
        tokens[CHOOSE i \in indices : Cardinality({j \in indices : j < i}) = n - 1]]

\* what the claim says parse returns
expected_argv(tokens, scanned) ==
    picked(tokens, {i \in 1..Len(tokens) :
                       /\ ~operator_at(tokens, i, scanned)
                       /\ ~(i > 1 /\ operator_at(tokens, i - 1, scanned))})

\* the index of the last operator of a stream, 0 if there is none
last_operator(tokens, ops, scanned) ==
    LET at == {i \in 1..Len(tokens) : operator_at(tokens, i, scanned) /\ tokens[i] \in ops}
    IN  IF at = {} THEN 0 ELSE CHOOSE i \in at : \A j \in at : j <= i

\* parse's result binds a stream as its last operator says
bound_as_last(tokens, ops, scanned, path, append) ==
    LET i == last_operator(tokens, ops, scanned) IN
    IF i = 0 \/ i = Len(tokens) THEN path = None
    ELSE path = Some(tokens[i + 1]) /\ append = (tokens[i] \in AppendOps)

parse_as_claimed(tokens, ctx, scanned) ==
    /\ ctx.argv = expected_argv(tokens, scanned)
    /\ bound_as_last(tokens, StdoutOps, scanned, ctx.stdout_path, ctx.append_stdout)
    /\ bound_as_last(tokens, StderrOps, scanned, ctx.stderr_path, ctx.append_stderr)

\* C16 (as stated): argv is the tokens that are neither an operator word nor the
\* token right after one, and each stream is bound by the last operator word of
\* the stream in the sequence.
C16_OperatorsByText ==
    fn_pc = "parsed" => parse_as_claimed(fn_input, fn_result, FALSE)

\* C16 (amended): a token is a redirection operator when it is an operator word
\* that was not consumed as the path of the operator before it; argv is the
\* tokens that are neither operators nor consumed as a path, in order, and each
\* stream is bound by its last operator: the following token as path, truncate
\* or append by the operator, or no redirection if no token follows.  The tokens
\* cmd, 1>, out.txt, arg give argv cmd, arg and stdout to out.txt, truncated.
C16_OperatorsByScan ==
    fn_pc = "parsed" =>
        /\ parse_as_claimed(fn_input, fn_result, TRUE)
        /\ fn_input = TokensExample =>
              /\ fn_result.argv = << <<"c", "m", "d">>, <<"a", "r", "g">> >>
              /\ fn_result.stdout_path = Some(TokensExample[3])
              /\ ~fn_result.append_stdout
              /\ fn_result.stderr_path = None

\* the tokens >, >, a were parsed: the second > is the path of the first and a
\* is an argument
C16_Witness_OperatorAsPath ==
    /\ fn_pc = "parsed" /\ fn_input = <<OpOut, OpOut, <<"a">> >>
    /\ fn_result.argv = << <<"a">> >>
    /\ fn_result.stdout_path = Some(OpOut)

====
